---- MODULE Spec2Model ----
(***************************************************************************)
(* serverless-plugin-warmup, src/src/warmer.js.                            *)
(*                                                                         *)
(* Two programs are modelled.  The generated script (the template text of  *)
(* createWarmUpFunctionArtifact, lines 113-189) runs in the deployed       *)
(* warmer: getConcurrency and warmUp.  The generators run at build time:   *)
(* addWarmUpFunctionRoleToResources, createWarmUpFunctionArtifact and      *)
(* addWarmUpFunctionToService.                                             *)
(*                                                                         *)
(* JavaScript strings are sequences of one-character strings, so that      *)
(* toUpperCase, replace, parseInt and base64 are computed character by     *)
(* character.  `undefined` is the one-element sequence Undefined, which is *)
(* no character sequence.                                                  *)
(***************************************************************************)
EXTENDS Integers, Sequences, FiniteSets, TLC

\* ------------------------------------------------------------------ bounds

\* Largest number of target functions embedded in the generated script.
MaxFuncs == 2
\* Largest statically configured concurrency.
MaxConc == 2

\* ----------------------------------------------------------------- strings

Undefined == <<"undefined">>

\* The printable ASCII characters, code 32 first (code 96 is written GRAVE).
Printable == <<" ", "!", "\"", "#", "$", "%", "&", "'", "(", ")", "*", "+", ",", "-", ".", "/", "0", "1", "2", "3", "4", "5", "6", "7", "8", "9", ":", ";", "<", "=", ">", "?", "@", "A", "B", "C", "D", "E", "F", "G", "H", "I", "J", "K", "L", "M", "N", "O", "P", "Q", "R", "S", "T", "U", "V", "W", "X", "Y", "Z", "[", "\\", "]", "^", "_", "GRAVE", "a", "b", "c", "d", "e", "f", "g", "h", "i", "j", "k", "l", "m", "n", "o", "p", "q", "r", "s", "t", "u", "v", "w", "x", "y", "z", "{", "|", "}", "~">>

CharCodes ==
    [c \in {Printable[i] : i \in 1..Len(Printable)} |->
        31 + CHOOSE i \in 1..Len(Printable) : Printable[i] = c]

\* String.prototype.charCodeAt, one character.
CharCode(c) == CharCodes[c]

CharOf(code) == Printable[code - 31]

\* String.prototype.toUpperCase, one character: a-z (97..122) to A-Z.
ToUpperChar(c) ==
    LET k == CharCode(c)
    IN  IF k >= 97 /\ k <= 122 THEN CharOf(k - 32) ELSE c

ToUpperCase(s) == [i \in 1..Len(s) |-> ToUpperChar(s[i])]

\* String.prototype.replace(/-/g, '_').
ReplaceHyphens(s) == [i \in 1..Len(s) |-> IF s[i] = "-" THEN "_" ELSE s[i]]

\* JavaScript truthiness of a value that is a string or undefined.
Truthy(v) == v /= Undefined /\ v /= <<>>

\* ---------------------------------------------------------------- parseInt

NaN == [isNaN |-> TRUE, n |-> 0]

Num(k) == [isNaN |-> FALSE, n |-> k]

DecimalDigits == <<"0", "1", "2", "3", "4", "5", "6", "7", "8", "9">>

\* '0'..'9' are the codes 48..57.
IsDigit(c) == CharCode(c) >= CharCode("0") /\ CharCode(c) <= CharCode("9")

DigitValue(c) == CharCode(c) - CharCode("0")

\* The number of leading whitespace characters of s.
LeadingSpaces(s) ==
    CHOOSE k \in 0..Len(s) :
        /\ \A j \in 1..k : s[j] = " "
        /\ k < Len(s) => s[k + 1] /= " "

\* s without its leading whitespace.
TrimStart(s) == SubSeq(s, LeadingSpaces(s) + 1, Len(s))

\* The number of leading decimal digits of s.
LeadingDigits(s) ==
    CHOOSE k \in 0..Len(s) :
        /\ \A j \in 1..k : IsDigit(s[j])
        /\ k < Len(s) => ~IsDigit(s[k + 1])

\* The longest prefix of s made of decimal digits.
DigitPrefix(s) == SubSeq(s, 1, LeadingDigits(s))

\* The number written by the first k digits of ds.
RECURSIVE DigitsValueUpTo(_, _)
DigitsValueUpTo(ds, k) ==
    IF k = 0 THEN 0 ELSE 10 * DigitsValueUpTo(ds, k - 1) + DigitValue(ds[k])

DigitsValue(ds) == DigitsValueUpTo(ds, Len(ds))

\* parseInt(string) with no radix: leading whitespace is skipped, one sign is
\* read, then the longest run of decimal digits; anything after it is ignored
\* and no digit at all gives NaN.  (A "0x" prefix selects radix 16; no input of
\* the model starts with it.)
ParseInt(s) ==
    LET t == TrimStart(s)
        signed == t /= <<>> /\ Head(t) \in {"+", "-"}
        body == IF signed THEN Tail(t) ELSE t
        ds == DigitPrefix(body)
    IN  IF ds = <<>> THEN NaN
        ELSE IF signed /\ Head(t) = "-" THEN Num(0 - DigitsValue(ds))
        ELSE Num(DigitsValue(ds))

\* Number.prototype.toString of an integer.
RECURSIVE NatToString(_)
NatToString(k) ==
    IF k < 10 THEN <<DecimalDigits[k + 1]>>
    ELSE NatToString(k \div 10) \o <<DecimalDigits[(k % 10) + 1]>>

IntToString(k) == IF k < 0 THEN <<"-">> \o NatToString(0 - k) ELSE NatToString(k)

\* ------------------------------------------------------------------ base64

Base64Alphabet == <<"A", "B", "C", "D", "E", "F", "G", "H", "I", "J", "K", "L", "M", "N", "O", "P", "Q", "R", "S", "T", "U", "V", "W", "X", "Y", "Z", "a", "b", "c", "d", "e", "f", "g", "h", "i", "j", "k", "l", "m", "n", "o", "p", "q", "r", "s", "t", "u", "v", "w", "x", "y", "z", "0", "1", "2", "3", "4", "5", "6", "7", "8", "9", "+", "/">>

\* The byte at position k of the ASCII text s, 0 past its end.
ByteAt(s, k) == IF k <= Len(s) THEN CharCode(s[k]) ELSE 0

\* Character k of the base64 text of s: every three bytes b1 b2 b3 (the group
\* starting at byte g) give four characters of six bits each, and a character
\* that holds no bit of the text is the padding '='.
Base64Char(s, k) ==
    LET g == 3 * ((k - 1) \div 4) + 1
        b1 == ByteAt(s, g)
        b2 == ByteAt(s, g + 1)
        b3 == ByteAt(s, g + 2)
    IN  CASE (k - 1) % 4 = 0 -> Base64Alphabet[(b1 \div 4) + 1]
          [] (k - 1) % 4 = 1 -> Base64Alphabet[((b1 % 4) * 16 + (b2 \div 16)) + 1]
          [] (k - 1) % 4 = 2 ->
                IF g + 1 > Len(s) THEN "="
                ELSE Base64Alphabet[((b2 % 16) * 4 + (b3 \div 64)) + 1]
          [] (k - 1) % 4 = 3 ->
                IF g + 2 > Len(s) THEN "=" ELSE Base64Alphabet[(b3 % 64) + 1]

\* Buffer.from(str).toString('base64'), for ASCII text.
Base64(s) == [k \in 1..(4 * ((Len(s) + 2) \div 3)) |-> Base64Char(s, k)]


\* ------------------------------------------------------------------- state

VARIABLES
    functions,     \* the embedded `functions` constant of the generated script
    env,           \* process.env of the deployed warmer
    phase,         \* warmUp: "idle", "running", "done" (returned), "rejected"
    cursor,        \* index of the next element functions.map hands to its callback
    concurrency,   \* per target, the value getConcurrency returned
    commands,      \* per target, the InvokeCommand built for it
    sent,          \* per target, the number of lambdaClient.send calls made
    succeeded,     \* per target, the sends that fulfilled
    failed,        \* per target, the sends that rejected
    invokes,       \* per target, the outcome of its callback's promise
    errorLog,      \* function names written by console.error, in order
    summary,       \* <<n>> once 'Warm Up Finished with n invoke errors' is computed
    service,       \* the host framework's service object
    warmerConfig,  \* warmer name -> its configuration object
    generated,     \* warmer name -> "role" and "definition", in the order they were synthesized
    artifact,      \* the createWarmUpFunctionArtifact call in progress
    fs             \* the platform's path separator and the handler folders on disk

runtimeVars == <<functions, env, phase, cursor, concurrency, commands, sent,
                 succeeded, failed, invokes, errorLog, summary>>

generatorVars == <<service, warmerConfig, generated, artifact, fs>>

vars == <<runtimeVars, generatorVars>>

\* ------------------------------------------------- generated script: inputs

Foo == <<"f", "o", "o">>

MyFn == <<"m", "y", "-", "f", "n">>

Bar == <<"b", "a", "r">>

\* Names of the target functions, by position in the embedded list.
FunctionNames == <<Foo, MyFn, Bar>>

ConcurrencyPrefix == <<"W", "A", "R", "M", "U", "P", "_", "C", "O", "N", "C", "U", "R", "R", "E", "N", "C", "Y", "_">>

GlobalConcurrencyKey == <<"W", "A", "R", "M", "U", "P", "_", "C", "O", "N", "C", "U", "R", "R", "E", "N", "C", "Y">>

AliasKey == <<"S", "E", "R", "V", "E", "R", "L", "E", "S", "S", "_", "A", "L", "I", "A", "S">>

\* `WARMUP_CONCURRENCY_${func.name.toUpperCase().replace(/-/g, '_')}`
FunctionConcurrencyKey(name) == ConcurrencyPrefix \o ReplaceHyphens(ToUpperCase(name))

\* envVars[key]: a variable that is not set reads as undefined.
EnvLookup(envVars, key) == IF key \in DOMAIN envVars THEN envVars[key] ELSE Undefined

\* An environment from a set of <<key, value>> pairs with distinct keys.
EnvOf(pairs) == [k \in {p[1] : p \in pairs} |-> (CHOOSE p \in pairs : p[1] = k)[2]]

Target(name, conc, clientContext, payload, alias) ==
    [name |-> name,
     config |-> [concurrency |-> conc, clientContext |-> clientContext,
                 payload |-> payload, alias |-> alias]]

DefaultPayload == <<"{", "\"", "s", "\"", ":", "1", "}">>

\* ------------------------------------------- generated script: getConcurrency

getConcurrencyIgnoringFunctionOverride(func, envVars) ==
    IF Truthy(EnvLookup(envVars, GlobalConcurrencyKey))
    THEN ParseInt(EnvLookup(envVars, GlobalConcurrencyKey))
    ELSE ParseInt(IntToString(func.config.concurrency))

getConcurrencySkippingUnparsable(func, envVars) ==
    LET functionConcurrency == EnvLookup(envVars, FunctionConcurrencyKey(func.name))
        globalConcurrency == EnvLookup(envVars, GlobalConcurrencyKey)
    IN  IF Truthy(functionConcurrency) /\ ~ParseInt(functionConcurrency).isNaN
        THEN ParseInt(functionConcurrency)
        ELSE IF Truthy(globalConcurrency) /\ ~ParseInt(globalConcurrency).isNaN
        THEN ParseInt(globalConcurrency)
        ELSE ParseInt(IntToString(func.config.concurrency))

getConcurrency(func, envVars) ==
    LET functionConcurrency == EnvLookup(envVars, FunctionConcurrencyKey(func.name))
    IN  IF Truthy(functionConcurrency)
        THEN ParseInt(functionConcurrency)
        ELSE IF Truthy(EnvLookup(envVars, GlobalConcurrencyKey))
        THEN ParseInt(EnvLookup(envVars, GlobalConcurrencyKey))
        ELSE ParseInt(IntToString(func.config.concurrency))

\* ------------------------------------------- generated script: InvokeCommand

CustomOpen == <<"{", "\"", "c", "u", "s", "t", "o", "m", "\"", ":">>

CustomClose == <<"}">>

PayloadFirstContext(config) ==
    IF config.payload /= Undefined THEN config.payload ELSE config.clientContext

\* func.config.clientContext !== undefined ? func.config.clientContext : func.config.payload
ChosenContext(config) ==
    IF config.clientContext /= Undefined THEN config.clientContext ELSE config.payload

\* clientContext ? Buffer.from(`{"custom":${clientContext}}`).toString('base64') : undefined
ClientContextHeader(clientContext) ==
    IF Truthy(clientContext)
    THEN Base64(CustomOpen \o clientContext \o CustomClose)
    ELSE Undefined

\* func.config.alias || process.env.SERVERLESS_ALIAS
Qualifier(config, envVars) ==
    IF Truthy(config.alias) THEN config.alias ELSE EnvLookup(envVars, AliasKey)

InvokeCommand(func, envVars) ==
    [ClientContext |-> ClientContextHeader(ChosenContext(func.config)),
     FunctionName |-> func.name,
     InvocationType |-> "RequestResponse",
     LogType |-> "None",
     Qualifier |-> Qualifier(func.config, envVars),
     Payload |-> func.config.payload]

\* ---------------------------------------------------- generated script: warmUp

Targets == 1..Len(functions)

Pending(i) == sent[i] - succeeded[i] - failed[i]

ArrayLengthPlusOne(c) == IF c.isNaN \/ c.n < 0 THEN 0 ELSE c.n + 1

\* Array(concurrency).fill(0).map(...): the number of elements mapped.  Array(n)
\* throws a RangeError unless n is an integer in 0 .. 2^32 - 1 (see ArrayThrows).
ArrayLength(c) == IF c.isNaN \/ c.n < 0 THEN 0 ELSE c.n

\* Array(NaN) and Array(-1) throw "RangeError: Invalid array length" (inside the try).
ArrayThrows(c) == c.isNaN \/ c.n < 0

CatchRethrows == "rejected"

\* The callback's catch block: console.error(...); return false.
CatchResult == "false"

CanDispatchAfterPreviousBatch(i) ==
    /\ phase = "running"
    /\ cursor = i
    /\ i \in Targets
    /\ IF i = 1 THEN TRUE ELSE invokes[i - 1] /= "pending"

\* functions.map(async (func) => ...) calls the callback for element i as soon as
\* the call for element i-1 has returned its promise (at its first await).
CanDispatch(i) ==
    /\ phase = "running"
    /\ cursor = i
    /\ i \in Targets

\* Settlements are delivered by the event loop, which runs only when no
\* synchronous code of warmUp is left to run.
EventLoopFree == phase \in {"running", "done", "rejected"} /\ ~\E i \in Targets : CanDispatch(i)

\* The outer Promise.all over the callbacks' promises, then the summary line:
\* it fulfils when every callback returned, and rejects when one of them threw.
AfterCallbacks(inv, cur) ==
    IF phase /= "running" THEN UNCHANGED <<phase, summary>>
    ELSE IF \E j \in Targets : inv[j] = "rejected"
    THEN phase' = "rejected" /\ UNCHANGED summary
    ELSE IF cur > Len(functions) /\ \A j \in Targets : inv[j] \in {"true", "false"}
    THEN /\ phase' = "done"
         /\ summary' = <<Cardinality({j \in Targets : inv[j] = "false"})>>
    ELSE UNCHANGED <<phase, summary>>

\* The warmer is invoked: warmUp(event, context) starts.
WarmUp ==
    /\ phase = "idle"
    /\ cursor' = 1
    /\ IF functions = <<>>
       THEN phase' = "done" /\ summary' = <<0>>
       ELSE phase' = "running" /\ UNCHANGED summary
    /\ UNCHANGED <<functions, env, concurrency, commands, sent, succeeded, failed,
                   invokes, errorLog>>
    /\ UNCHANGED generatorVars

\* The callback of functions.map for target i, up to its await: the concurrency
\* is resolved, the command built and every send of the batch issued.
DispatchBatch(i) ==
    /\ CanDispatch(i)
    /\ \E func \in {functions[i]} :
       \E c \in {getConcurrency(func, env)} :
       \E inv \in {[invokes EXCEPT ![i] =
                       IF ArrayThrows(c) THEN CatchResult
                       ELSE IF ArrayLength(c) = 0 THEN "true"
                       ELSE "pending"]} :
           /\ concurrency' = Append(concurrency, c)
           /\ commands' = Append(commands, InvokeCommand(func, env))
           /\ sent' = [sent EXCEPT ![i] = ArrayLength(c)]
           /\ invokes' = inv
           /\ errorLog' = IF ArrayThrows(c) THEN Append(errorLog, func.name) ELSE errorLog
           /\ cursor' = i + 1
           /\ AfterCallbacks(inv, i + 1)
    /\ UNCHANGED <<functions, env, succeeded, failed>>
    /\ UNCHANGED generatorVars

InvokeSucceedsAny(i) ==
    /\ EventLoopFree
    /\ Pending(i) > 0
    /\ succeeded' = [succeeded EXCEPT ![i] = @ + 1]
    /\ LET inv == [invokes EXCEPT ![i] = IF @ = "pending" THEN "true" ELSE @]
       IN  invokes' = inv /\ AfterCallbacks(inv, cursor)
    /\ UNCHANGED <<functions, env, cursor, concurrency, commands, sent, failed, errorLog>>
    /\ UNCHANGED generatorVars

\* One send of target i fulfils.  The batch's Promise.all fulfils with the last one.
InvokeSucceeds(i) ==
    /\ EventLoopFree
    /\ Pending(i) > 0
    /\ succeeded' = [succeeded EXCEPT ![i] = @ + 1]
    /\ LET inv == [invokes EXCEPT ![i] =
                      IF @ = "pending" /\ succeeded[i] + 1 = sent[i] THEN "true" ELSE @]
       IN  invokes' = inv /\ AfterCallbacks(inv, cursor)
    /\ UNCHANGED <<functions, env, cursor, concurrency, commands, sent, failed, errorLog>>
    /\ UNCHANGED generatorVars

\* One send of target i rejects.  The batch's Promise.all rejects with the first
\* rejection and the catch block runs; later rejections of the batch are ignored.
InvokeFails(i) ==
    /\ EventLoopFree
    /\ Pending(i) > 0
    /\ failed' = [failed EXCEPT ![i] = @ + 1]
    /\ errorLog' = IF invokes[i] = "pending" THEN Append(errorLog, functions[i].name)
                   ELSE errorLog
    /\ LET inv == [invokes EXCEPT ![i] = IF @ = "pending" THEN CatchResult ELSE @]
       IN  invokes' = inv /\ AfterCallbacks(inv, cursor)
    /\ UNCHANGED <<functions, env, cursor, concurrency, commands, sent, succeeded>>
    /\ UNCHANGED generatorVars


RuntimeNext ==
    \/ WarmUp
    \/ \E i \in Targets : DispatchBatch(i)
    \/ \E i \in Targets : InvokeSucceeds(i)
    \/ \E i \in Targets : InvokeFails(i)

\* ------------------------------------------------------- generators: strings

RoleIdPrefix == <<"W", "a", "r", "m", "U", "p", "P", "l", "u", "g", "i", "n">>

RoleIdSuffix == <<"R", "o", "l", "e">>

FunctionKeyPrefix == <<"w", "a", "r", "m", "U", "p", "P", "l", "u", "g", "i", "n">>

LogGroupArnPrefix == <<"a", "r", "n", ":", "$", "{", "A", "W", "S", ":", ":", "P", "a", "r", "t", "i", "t", "i", "o", "n", "}", ":", "l", "o", "g", "s", ":", "$", "{", "A", "W", "S", ":", ":", "R", "e", "g", "i", "o", "n", "}", ":", "$", "{", "A", "W", "S", ":", ":", "A", "c", "c", "o", "u", "n", "t", "I", "d", "}", ":", "l", "o", "g", "-", "g", "r", "o", "u", "p", ":", "/", "a", "w", "s", "/", "l", "a", "m", "b", "d", "a", "/">>

FunctionArnPrefix == <<"a", "r", "n", ":", "$", "{", "A", "W", "S", ":", ":", "P", "a", "r", "t", "i", "t", "i", "o", "n", "}", ":", "l", "a", "m", "b", "d", "a", ":", "$", "{", "A", "W", "S", ":", ":", "R", "e", "g", "i", "o", "n", "}", ":", "$", "{", "A", "W", "S", ":", ":", "A", "c", "c", "o", "u", "n", "t", "I", "d", "}", ":", "f", "u", "n", "c", "t", "i", "o", "n", ":">>

DescriptionOpen == <<"S", "e", "r", "v", "e", "r", "l", "e", "s", "s", " ", "W", "a", "r", "m", "U", "p", " ", "P", "l", "u", "g", "i", "n", " ", "(", "w", "a", "r", "m", "e", "r", " ", "\"">>

DescriptionClose == <<"\"", ")">>

\* String.prototype.toLowerCase, one character: A-Z (65..90) to a-z.
ToLowerChar(c) ==
    LET k == CharCode(c)
    IN  IF k >= 65 /\ k <= 90 THEN CharOf(k + 32) ELSE c

ToLowerCase(s) == [i \in 1..Len(s) |-> ToLowerChar(s[i])]

\* capitalize of ./utils: the first character upper-cased, the rest unchanged.
capitalize(s) == IF s = <<>> THEN <<>> ELSE <<ToUpperChar(Head(s))>> \o Tail(s)

\* str.split(sep).join(path.posix.sep), for a one-character separator.
SplitJoin(s, sep) == [i \in 1..Len(s) |-> IF s[i] = sep THEN "/" ELSE s[i]]

\* A JavaScript object as a map from the keys it has; a key it lacks reads as
\* undefined.
Has(obj, key) == key \in DOMAIN obj

\* obj[key] is truthy, for a string-valued key.
HasText(obj, key) == Has(obj, key) /\ obj[key] /= <<>>

NoProps == <<>>

JsUndefined == [type |-> "undefined"]

JsObject(props) == [type |-> "object", props |-> props]

\* typeof v !== 'object'
NotAnObject(v) == v.type /= "object"

\* ----------------------------------- generators: addWarmUpFunctionRoleToResources

RoleLogicalIdUncapitalized(warmerName) == RoleIdPrefix \o warmerName \o RoleIdSuffix

\* `WarmUpPlugin${capitalize(warmerName)}Role`
RoleLogicalId(warmerName) == RoleIdPrefix \o capitalize(warmerName) \o RoleIdSuffix

RoleDocument(svc, stage, warmerName, cfg) ==
    [Type |-> "AWS::IAM::Role",
     Properties |->
        [Path |-> "/",
         RoleName |->
            IF HasText(cfg, "roleName") THEN cfg.roleName
            ELSE [FnJoin |-> <<"-", <<svc.service, stage, [Ref |-> "AWS::Region"],
                                      ToLowerCase(warmerName), "role">>>>],
         AssumeRolePolicyDocument |->
            [Version |-> "2012-10-17",
             Statement |-> <<[Effect |-> "Allow",
                              Principal |-> [Service |-> <<"lambda.amazonaws.com">>],
                              Action |-> "sts:AssumeRole"]>>],
         Policies |->
            <<[PolicyName |->
                  [FnJoin |-> <<"-", <<svc.service, stage, "warmer",
                                        ToLowerCase(warmerName), "policy">>>>],
               PolicyDocument |->
                  [Version |-> "2012-10-17",
                   Statement |->
                      <<[Effect |-> "Allow",
                         Action |-> <<"logs:CreateLogGroup", "logs:CreateLogStream">>,
                         Resource |-> <<[FnSub |-> LogGroupArnPrefix \o cfg.name \o <<":", "*">>]>>],
                        [Effect |-> "Allow",
                         Action |-> <<"logs:PutLogEvents">>,
                         Resource |-> <<[FnSub |-> LogGroupArnPrefix \o cfg.name
                                                      \o <<":", "*", ":", "*">>]>>],
                        [Effect |-> "Allow",
                         Action |-> <<"lambda:InvokeFunction">>,
                         Resource |-> [i \in 1..Len(cfg.functions) |->
                                          [FnSub |-> FunctionArnPrefix
                                                       \o cfg.functions[i].name \o <<"*">>]]],
                        [Effect |-> "Allow",
                         Action |-> <<"ec2:CreateNetworkInterface",
                                      "ec2:DescribeNetworkInterfaces",
                                      "ec2:DetachNetworkInterface",
                                      "ec2:DeleteNetworkInterface">>,
                         Resource |-> <<"*">>]>>]]>>]]

\* addWarmUpFunctionRoleToResources(service, stage, warmerName, warmerConfig[warmerName])
addWarmUpFunctionRoleToResources(stage, warmerName) ==
    LET cfg == [role |-> RoleLogicalId(warmerName)] @@ warmerConfig[warmerName]
        res1 == IF NotAnObject(service.resources) THEN JsObject(NoProps)
                ELSE service.resources
        inner == IF Has(res1.props, "Resources") THEN res1.props.Resources ELSE JsUndefined
        res2 == IF NotAnObject(inner) THEN JsObject(NoProps) ELSE inner
        res3 == JsObject((cfg.role :> RoleDocument(service, stage, warmerName, cfg))
                         @@ res2.props)
    IN  /\ warmerConfig' = [warmerConfig EXCEPT ![warmerName] = cfg]
        /\ service' = [service EXCEPT
                          !.resources = JsObject([Resources |-> res3] @@ res1.props)]

\* --------------------------------------- generators: addWarmUpFunctionToService

FunctionKey(warmerName) == FunctionKeyPrefix \o capitalize(warmerName)

\* ...(warmerConfig.role ? { role: warmerConfig.role } : {})
RoleField(cfg) == IF HasText(cfg, "role") THEN [role |-> cfg.role] ELSE NoProps

FunctionEntry(warmerName, cfg, sep) ==
    [description |-> DescriptionOpen \o warmerName \o DescriptionClose,
     events |-> cfg.events,
     handler |-> SplitJoin(cfg.pathHandler, sep),
     memorySize |-> cfg.memorySize,
     name |-> cfg.name,
     runtime |-> "nodejs22.x",
     package |-> cfg.package,
     timeout |-> cfg.timeout,
     layers |-> <<>>]
    @@ (IF HasText(cfg, "architecture") THEN [architecture |-> cfg.architecture] ELSE NoProps)
    @@ (IF DOMAIN cfg.environment /= {} THEN [environment |-> cfg.environment] ELSE NoProps)
    @@ (IF Has(cfg, "tracing") THEN [tracing |-> cfg.tracing] ELSE NoProps)
    @@ (IF Has(cfg, "logRetentionInDays")
        THEN [logRetentionInDays |-> cfg.logRetentionInDays] ELSE NoProps)
    @@ (IF HasText(cfg, "roleName") THEN [roleName |-> cfg.roleName] ELSE NoProps)
    @@ RoleField(cfg)
    @@ (IF Has(cfg, "tags") THEN [tags |-> cfg.tags] ELSE NoProps)
    @@ (IF Has(cfg, "vpc") THEN [vpc |-> cfg.vpc] ELSE NoProps)

\* addWarmUpFunctionToService(service, warmerName, warmerConfig[warmerName])
addWarmUpFunctionToService(warmerName) ==
    /\ service' = [service EXCEPT
                      !.functions = (FunctionKey(warmerName) :>
                                        FunctionEntry(warmerName, warmerConfig[warmerName], fs.sep))
                                    @@ service.functions]
    /\ UNCHANGED warmerConfig


\* ------------------------------------- generators: createWarmUpFunctionArtifact

Region == <<"u", "s", "-", "e", "a", "s", "t", "-", "1">>

\* The text written to index.mjs, by the template's holes.
WarmUpFunctionText(fns, tracing, verbose, region) ==
    [region |-> region,
     lambdaClient |-> IF tracing THEN "AWSXRay.captureAWSv3Client(uninstrumentedLambdaClient)"
                      ELSE "uninstrumentedLambdaClient",
     functions |-> fns,
     logVerbose |-> IF verbose THEN "console.log(str);" ELSE ""]

NextStepAlwaysInstalling(step, tracing) ==
    CASE step = "mkdir" -> "writeFile"
      [] step = "writeFile" -> "npmInit"
      [] step = "npmInit" -> "npmInstall"
      [] step = "npmInstall" -> "return"

\* What the function does once the awaited step fulfilled.
NextStep(step, tracing) ==
    CASE step = "mkdir" -> "writeFile"
      [] step = "writeFile" -> IF tracing THEN "npmInit" ELSE "return"
      [] step = "npmInit" -> "npmInstall"
      [] step = "npmInstall" -> "return"

ArtifactSteps == {"mkdir", "writeFile", "npmInit", "npmInstall"}

ArtifactIdle ==
    [pc |-> "idle", warmer |-> <<>>, tracing |-> FALSE, text |-> NoProps,
     started |-> <<>>, completed |-> <<>>, error |-> "none"]

\* createWarmUpFunctionArtifact(warmerConfig.functions, warmerConfig.tracing, verbose,
\* region, handlerFolder) is called: the text is rendered and fs.mkdir issued.
createWarmUpFunctionArtifact(warmerName, verbose) ==
    LET cfg == warmerConfig[warmerName]
        tracing == Has(cfg, "tracing") /\ cfg.tracing
    IN  artifact' = [pc |-> "mkdir", warmer |-> warmerName, tracing |-> tracing,
                     text |-> WarmUpFunctionText(cfg.functions, tracing, verbose, Region),
                     started |-> <<"mkdir">>, completed |-> <<>>, error |-> "none"]

\* What a fulfilled step leaves in the handler folder.
FolderAfter(folder, step, text) ==
    CASE step = "mkdir" -> [folder EXCEPT !.exists = TRUE]
      [] step = "writeFile" -> [folder EXCEPT !.index = <<text>>]
      [] step = "npmInit" -> [folder EXCEPT !.manifest = TRUE]
      [] step = "npmInstall" -> [folder EXCEPT !.dependency = TRUE]

\* The awaited step fulfils: the function goes on to its next step, or returns.
StepFulfils(step) ==
    /\ artifact.pc = step
    /\ LET next == NextStep(step, artifact.tracing)
       IN  artifact' = [artifact EXCEPT
                           !.completed = Append(@, step),
                           !.pc = IF next = "return" THEN "resolved" ELSE next,
                           !.started = IF next = "return" THEN @ ELSE Append(@, next)]
    /\ fs' = [fs EXCEPT !.folders[artifact.warmer] = FolderAfter(@, step, artifact.text)]
    /\ UNCHANGED <<service, warmerConfig, generated>>
    /\ UNCHANGED runtimeVars

\* The awaited step rejects: the await throws and the returned promise rejects.
StepRejects(step) ==
    /\ artifact.pc = step
    /\ artifact' = [artifact EXCEPT !.pc = "rejected", !.error = step]
    /\ UNCHANGED <<service, warmerConfig, generated, fs>>
    /\ UNCHANGED runtimeVars

\* ------------------------------------------------------ generators: the caller

DefaultWarmer == <<"d", "e", "f", "a", "u", "l", "t">>

OffPeakWarmer == <<"o", "f", "f", "P", "e", "a", "k">>

Warmers == {DefaultWarmer, OffPeakWarmer}

ServiceName == <<"s", "v", "c">>

StageName == <<"d", "e", "v">>

NamePrefix == <<"s", "v", "c", "-", "d", "e", "v", "-", "w", "a", "r", "m", "u", "p", "-">>

CustomRoleName == <<"m", "y", "-", "r", "o", "l", "e">>

UserRole == <<"m", "y", "R", "o", "l", "e">>

WarmupDir == <<".", "w", "a", "r", "m", "u", "p">>

HandlerFile == <<"i", "n", "d", "e", "x", ".", "w", "a", "r", "m", "U", "p">>

\* The fields every warmer configuration has.
BaseConfig(w, sep) ==
    [name |-> NamePrefix \o w,
     functions |-> <<Target(Foo, 1, Undefined, DefaultPayload, Undefined),
                     Target(MyFn, 2, Undefined, DefaultPayload, Undefined)>>,
     events |-> <<[schedule |-> "rate(5 minutes)"]>>,
     memorySize |-> 128,
     package |-> [individually |-> TRUE],
     timeout |-> 10,
     environment |-> NoProps,
     pathHandler |-> WarmupDir \o <<sep>> \o w \o <<sep>> \o HandlerFile]

\* The configurations a warmer may have when the generators run.
ConfigProfiles(w, sep) ==
    { BaseConfig(w, sep),
      [tracing |-> FALSE, roleName |-> <<>>, role |-> UserRole] @@ BaseConfig(w, sep),
      [tracing |-> TRUE, roleName |-> CustomRoleName, architecture |-> <<"a", "r", "m", "6", "4">>,
       logRetentionInDays |-> 14, tags |-> [team |-> "core"], vpc |-> [subnetIds |-> <<>>],
       environment |-> [STAGE |-> StageName]] @@ BaseConfig(w, sep) }

\* service.resources before the plugin runs: absent, without a Resources
\* section, or with one that holds a resource of the user's.
InitialResources ==
    { JsUndefined,
      JsObject([Outputs |-> JsObject(NoProps)]),
      JsObject([Resources |->
                   JsObject(<<"B", "u", "c", "k", "e", "t">> :> [Type |-> "AWS::S3::Bucket"])]) }

EmptyFolder == [exists |-> FALSE, index |-> <<>>, manifest |-> FALSE, dependency |-> FALSE]

NotCalled(w, call) == \A k \in 1..Len(generated[w]) : generated[w][k] /= call

\* The caller synthesizes the role of warmer w.
AddRole(w) ==
    /\ NotCalled(w, "role")
    /\ addWarmUpFunctionRoleToResources(StageName, w)
    /\ generated' = [generated EXCEPT ![w] = Append(@, "role")]
    /\ UNCHANGED <<artifact, fs>>
    /\ UNCHANGED runtimeVars

\* The caller generates the artifact of warmer w; generating again overwrites.
CreateArtifact(w, verbose) ==
    /\ artifact.pc \in {"idle", "resolved", "rejected"}
    /\ createWarmUpFunctionArtifact(w, verbose)
    /\ UNCHANGED <<service, warmerConfig, generated, fs>>
    /\ UNCHANGED runtimeVars

\* The caller adds the function definition of warmer w.
AddFunction(w) ==
    /\ NotCalled(w, "definition")
    /\ addWarmUpFunctionToService(w)
    /\ generated' = [generated EXCEPT ![w] = Append(@, "definition")]
    /\ UNCHANGED <<artifact, fs>>
    /\ UNCHANGED runtimeVars

\* Role and definition synthesis, each once per warmer, in any order.
ServiceNext ==
    \/ \E w \in Warmers : AddRole(w)
    \/ \E w \in Warmers : AddFunction(w)

ArtifactNext ==
    \/ \E w \in Warmers, verbose \in BOOLEAN : CreateArtifact(w, verbose)
    \/ \E step \in ArtifactSteps : StepFulfils(step)
    \/ \E step \in ArtifactSteps : StepRejects(step)

\* --------------------------------------------------------------- initial states

\* The generators have not run: nothing of theirs changes while the warmer runs.
GeneratorAtRest ==
    /\ service = [service |-> ServiceName, resources |-> JsUndefined, functions |-> NoProps]
    /\ fs = [sep |-> "/", folders |-> [w \in Warmers |-> EmptyFolder]]
    /\ warmerConfig = [w \in Warmers |-> BaseConfig(w, "/")]
    /\ generated = [w \in Warmers |-> <<>>]
    /\ artifact = ArtifactIdle

GeneratorInit ==
    /\ service \in {[service |-> ServiceName, resources |-> r, functions |-> NoProps] :
                       r \in InitialResources}
    /\ fs \in {[sep |-> s, folders |-> [w \in Warmers |-> EmptyFolder]] : s \in {"/", "\\"}}
    /\ warmerConfig \in {c \in [Warmers -> UNION {ConfigProfiles(w, fs.sep) : w \in Warmers}] :
                            \A w \in Warmers : c[w] \in ConfigProfiles(w, fs.sep)}
    /\ generated = [w \in Warmers |-> <<>>]
    /\ artifact = ArtifactIdle

\* The script was loaded with the given embedded list and environment; warmUp
\* has not been invoked.
RuntimeInit(lists, envs) ==
    /\ functions \in lists
    /\ env \in envs
    /\ phase = "idle"
    /\ cursor = 1
    /\ concurrency = <<>>
    /\ commands = <<>>
    /\ sent = [i \in 1..Len(functions) |-> 0]
    /\ succeeded = [i \in 1..Len(functions) |-> 0]
    /\ failed = [i \in 1..Len(functions) |-> 0]
    /\ invokes = [i \in 1..Len(functions) |-> "unstarted"]
    /\ errorLog = <<>>
    /\ summary = <<>>

\* Lists of up to MaxFuncs targets with static concurrencies up to MaxConc.
RuntimeLists ==
    UNION { { [i \in 1..n |-> Target(FunctionNames[i], cs[i], Undefined, DefaultPayload, Undefined)] :
                cs \in [1..n -> 0..MaxConc] } : n \in 0..MaxFuncs }

\* Environments of the deployed warmer: no override, numeric and non-numeric
\* overrides of one function or of all.
RuntimeEnvs ==
    { EnvOf({}),
      EnvOf({<<FunctionConcurrencyKey(Foo), <<"a", "b", "c">>>>}),
      EnvOf({<<FunctionConcurrencyKey(MyFn), <<"-", "1">>>>}),
      EnvOf({<<GlobalConcurrencyKey, <<"1">>>>}),
      EnvOf({<<GlobalConcurrencyKey, <<"x">>>>}),
      EnvOf({<<FunctionConcurrencyKey(Foo), <<"2">>>>, <<GlobalConcurrencyKey, <<"0">>>>}) }

Init == RuntimeInit(RuntimeLists, RuntimeEnvs) /\ GeneratorAtRest

Next == RuntimeNext

Spec == Init /\ [][Next]_vars

\* warmUp's own code always runs on, and every dispatched invocation settles.
FairSpec ==
    /\ Spec
    /\ WF_vars(\E i \in Targets : DispatchBatch(i))
    /\ WF_vars(\E i \in Targets : InvokeSucceeds(i) \/ InvokeFails(i))


\* Inputs for getConcurrency: one target, every pairing of a per-function and a
\* global override value (or none), the per-function key being that of either name.
OverrideValues ==
    { <<>>, <<"3">>, <<"0">>, <<"a", "b", "c">>, <<"-", "1">>, <<"2", "x">>, <<" ", "1">> }

ConcurrencyLists ==
    { <<Target(name, c, Undefined, DefaultPayload, Undefined)>> :
        name \in {Foo, MyFn}, c \in 0..MaxConc }

ConcurrencyEnvs ==
    { EnvOf(f \cup g) :
        f \in {{}} \cup { {<<FunctionConcurrencyKey(name), v>>} :
                             name \in {Foo, MyFn}, v \in OverrideValues },
        g \in {{}} \cup { {<<GlobalConcurrencyKey, v>>} : v \in OverrideValues } }

ConcurrencyInit == RuntimeInit(ConcurrencyLists, ConcurrencyEnvs) /\ GeneratorAtRest

SpecConcurrency == ConcurrencyInit /\ [][Next]_vars

\* Inputs for the InvokeCommand: one target with every combination of an absent,
\* empty or given clientContext, payload and alias, and of SERVERLESS_ALIAS.
ContextJson == <<"{", "\"", "k", "\"", ":", "\"", "v", "\"", "}">>

AliasValues == { <<>>, <<"v", "1">> }

RequestLists ==
    { <<Target(Foo, 1, cc, p, a)>> :
        cc \in {Undefined, <<>>, ContextJson},
        p \in {Undefined, <<>>, DefaultPayload},
        a \in {Undefined} \cup AliasValues }

RequestEnvs ==
    { EnvOf({}), EnvOf({<<AliasKey, <<>>>>}), EnvOf({<<AliasKey, <<"d", "e", "v">>>>}) }

RequestInit == RuntimeInit(RequestLists, RequestEnvs) /\ GeneratorAtRest

SpecRequest == RequestInit /\ [][Next]_vars

\* Build time: the script is not running.
BuildInit == RuntimeInit({<<>>}, {EnvOf({})}) /\ GeneratorInit

SpecService == BuildInit /\ [][ServiceNext]_vars

SpecArtifact == BuildInit /\ [][ArtifactNext]_vars


\* ======================================================================= claims

Dispatched == 1..Len(concurrency)

\* The resolved concurrency of target i is a non-negative integer.
ValidConcurrency(i) == ~concurrency[i].isNaN /\ concurrency[i].n >= 0

\* ---------------------------------------------------------------------------
\* C1 (as claimed).  getConcurrency uses the per-function variable if it is set
\* and parses as an integer, otherwise the global variable if it is set and
\* parses as an integer, otherwise the static config.concurrency.
\* ---------------------------------------------------------------------------

\* What parseInt gives for each override value the environments hold, written
\* out: "3", "2", "1", "0", "-1", "2x" and " 1" start with an integer, the
\* others ("abc", "x", the empty string) do not.
ParsedOverride(v) ==
    CASE v = <<"3">> -> Num(3)
      [] v = <<"2">> -> Num(2)
      [] v = <<"1">> -> Num(1)
      [] v = <<"0">> -> Num(0)
      [] v = <<"-", "1">> -> Num(0 - 1)
      [] v = <<"2", "x">> -> Num(2)
      [] v = <<" ", "1">> -> Num(1)
      [] OTHER -> NaN

FunctionOverride(i) ==
    EnvLookup(env, ConcurrencyPrefix \o ReplaceHyphens(ToUpperCase(functions[i].name)))

GlobalOverride == EnvLookup(env, GlobalConcurrencyKey)

ParsesAsInteger(v) == v /= Undefined /\ ~ParsedOverride(v).isNaN

C1_PrecedenceSkipsUnparsable ==
    \A i \in Dispatched :
        concurrency[i] =
            IF ParsesAsInteger(FunctionOverride(i)) THEN ParsedOverride(FunctionOverride(i))
            ELSE IF ParsesAsInteger(GlobalOverride) THEN ParsedOverride(GlobalOverride)
            ELSE Num(functions[i].config.concurrency)

\* C1 (amended).  getConcurrency uses the per-function variable if it is set
\* and not empty, whatever it parses to (not-a-number when it has no leading
\* integer); otherwise the global variable if it is set and not empty, likewise;
\* otherwise the static config.concurrency.
C1_Precedence ==
    \A i \in Dispatched :
        concurrency[i] =
            IF FunctionOverride(i) /= Undefined /\ FunctionOverride(i) /= <<>>
            THEN ParsedOverride(FunctionOverride(i))
            ELSE IF GlobalOverride /= Undefined /\ GlobalOverride /= <<>>
            THEN ParsedOverride(GlobalOverride)
            ELSE Num(functions[i].config.concurrency)

\* WARMUP_CONCURRENCY_FOO=3 has overridden both WARMUP_CONCURRENCY=0 and a static
\* concurrency of 2 for "foo".
C1_Witness ==
    /\ Len(concurrency) = 1
    /\ functions[1].name = Foo
    /\ functions[1].config.concurrency = 2
    /\ FunctionOverride(1) = <<"3">>
    /\ GlobalOverride = <<"0">>
    /\ concurrency[1] = Num(3)
    /\ sent[1] = 3

\* ---------------------------------------------------------------------------
\* C2.  For every target whose concurrency resolved to a non-negative integer N,
\* exactly N sends of a command naming that target were made once its batch was
\* dispatched, and the number stays N whatever fails afterwards (no retry).
\* ---------------------------------------------------------------------------
C2_ExactlyNSends ==
    \A i \in Dispatched :
        ValidConcurrency(i) =>
            /\ sent[i] = concurrency[i].n
            /\ commands[i].FunctionName = functions[i].name
            /\ succeeded[i] + failed[i] <= concurrency[i].n

\* warmUp returned after a batch of two in which a send failed.
C2_Witness ==
    /\ phase = "done"
    /\ \E i \in Targets : concurrency[i] = Num(2) /\ sent[i] = 2 /\ failed[i] >= 1

\* ---------------------------------------------------------------------------
\* C3 (as claimed).  When warmUp returns, a target's result is true exactly when
\* its whole batch succeeded and false exactly when one of its sends failed, and
\* the summary counts the targets that had a failed send.
\* ---------------------------------------------------------------------------
C3_FalseOnlyOnFailedSend ==
    phase = "done" =>
        /\ \A i \in Targets :
              /\ invokes[i] = "true" <=> succeeded[i] = sent[i]
              /\ invokes[i] = "false" <=> failed[i] > 0
        /\ summary = <<Cardinality({i \in Targets : failed[i] > 0})>>

\* C3 (amended).  A target's result is false exactly when one of its sends
\* failed or its concurrency is no valid array length (not-a-number or negative,
\* for which nothing is sent); it is true exactly when the concurrency is valid
\* and every send of the batch succeeded.  Each result depends on the target's
\* own sends only, and the summary counts the targets whose result is false.
C3_FailureIsolation ==
    /\ \A i \in Dispatched :
          /\ invokes[i] = "false" <=> (failed[i] > 0 \/ ~ValidConcurrency(i))
          /\ invokes[i] = "true" <=> (ValidConcurrency(i) /\ succeeded[i] = concurrency[i].n)
          /\ sent[i] = IF ValidConcurrency(i) THEN concurrency[i].n ELSE 0
    /\ phase = "done" =>
          summary = <<Cardinality({i \in Targets : failed[i] > 0 \/ ~ValidConcurrency(i)})>>

\* Of two targets one had a failed send and the other succeeded: count 1.
C3_Witness ==
    /\ phase = "done"
    /\ Len(functions) = 2
    /\ failed[1] > 0
    /\ invokes[1] = "false"
    /\ sent[2] = 2
    /\ invokes[2] = "true"
    /\ summary = <<1>>

\* ---------------------------------------------------------------------------
\* C4.  warmUp never rejects because of failed invocations, and once started it
\* returns provided every dispatched invocation settles.
\* ---------------------------------------------------------------------------
C4_NeverRejects ==
    /\ [](phase /= "rejected")
    /\ (phase = "running") ~> (phase = "done")

\* warmUp returned although every invocation of both targets failed.
C4_Witness ==
    /\ phase = "done"
    /\ Len(functions) = 2
    /\ \A i \in Targets : sent[i] > 0 /\ failed[i] = sent[i]
    /\ summary = <<2>>

\* ---------------------------------------------------------------------------
\* C5.  A non-empty override without a leading integer is not validated: the
\* target's concurrency is not-a-number, nothing is sent for it, warmUp does not
\* reject, and the other targets get their sends and results as usual.
\* ---------------------------------------------------------------------------
NonNumericOverride(i) ==
    \/ FunctionOverride(i) /= Undefined /\ FunctionOverride(i) /= <<>>
          /\ ParsedOverride(FunctionOverride(i)).isNaN
    \/ /\ FunctionOverride(i) \in {Undefined, <<>>}
       /\ GlobalOverride /= Undefined /\ GlobalOverride /= <<>>
       /\ ParsedOverride(GlobalOverride).isNaN

C8_SettledAtReturn == phase = "done" => \A i \in Targets : Pending(i) = 0

\* ---------------------------------------------------------------------------
\* C9.  Every send is made before any invocation has settled: no dispatch waits
\* for the completion of another invocation, of the same target or of another.
\* ---------------------------------------------------------------------------
C9_FanOut ==
    [][sent' /= sent => \A i \in Targets : succeeded[i] = 0 /\ failed[i] = 0]_vars

\* Both batches of two are in flight at once, none settled.
C9_Witness ==
    /\ Len(functions) = 2
    /\ cursor > Len(functions)
    /\ \A i \in Targets : sent[i] = 2 /\ Pending(i) = 2


\* ---------------------------------------------------------------------------
\* C10 (as claimed).  The client context is config.clientContext when it is not
\* undefined, otherwise config.payload; when that value is present the header is
\* the base64 text of {"custom":<value>}, and when both are absent the header is
\* omitted.  Payload is config.payload and Qualifier is config.alias, or
\* SERVERLESS_ALIAS when alias is unset.
\* ---------------------------------------------------------------------------

SextetOf(c) == (CHOOSE k \in 1..Len(Base64Alphabet) : Base64Alphabet[k] = c) - 1

\* Byte j of the bytes a base64 text encodes.
Base64DecodedByte(text, j) ==
    LET g == 4 * ((j - 1) \div 3) + 1
        s1 == SextetOf(text[g])
        s2 == SextetOf(text[g + 1])
        s3 == IF text[g + 2] = "=" THEN 0 ELSE SextetOf(text[g + 2])
        s4 == IF text[g + 3] = "=" THEN 0 ELSE SextetOf(text[g + 3])
    IN  CASE (j - 1) % 3 = 0 -> s1 * 4 + (s2 \div 16)
          [] (j - 1) % 3 = 1 -> (s2 % 16) * 16 + (s3 \div 4)
          [] (j - 1) % 3 = 2 -> (s3 % 4) * 64 + s4

Base64Padding(text) ==
    IF text = <<>> THEN 0
    ELSE IF text[Len(text) - 1] = "=" THEN 2
    ELSE IF text[Len(text)] = "=" THEN 1
    ELSE 0

\* The ASCII text a base64 text encodes.
Base64Decode(text) ==
    [j \in 1..(3 * (Len(text) \div 4) - Base64Padding(text)) |->
        CharOf(Base64DecodedByte(text, j))]

ClaimedContext(cfg) ==
    IF cfg.clientContext /= Undefined THEN cfg.clientContext ELSE cfg.payload

C10_HeaderWheneverDefined ==
    \A i \in Dispatched :
        LET cfg == functions[i].config
            cmd == commands[i]
        IN  /\ ClaimedContext(cfg) /= Undefined =>
                  /\ cmd.ClientContext /= Undefined
                  /\ Base64Decode(cmd.ClientContext)
                        = CustomOpen \o ClaimedContext(cfg) \o CustomClose
            /\ (cfg.clientContext = Undefined /\ cfg.payload = Undefined) =>
                  cmd.ClientContext = Undefined
            /\ cmd.Payload = cfg.payload
            /\ cmd.Qualifier = IF cfg.alias /= Undefined THEN cfg.alias
                               ELSE EnvLookup(env, AliasKey)

\* C10 (amended).  The client context is config.clientContext when it is not
\* undefined, otherwise config.payload; when that value is a non-empty string
\* the header is the base64 text of {"custom":<value>}, and otherwise (undefined
\* or empty, in particular when both are absent) the header is omitted.  Payload
\* is config.payload and Qualifier is config.alias when that is a non-empty
\* string, SERVERLESS_ALIAS otherwise.
C10_InvokeCommand ==
    \A i \in Dispatched :
        LET cfg == functions[i].config
            cmd == commands[i]
            chosen == ClaimedContext(cfg)
        IN  /\ (chosen /= Undefined /\ chosen /= <<>>) =>
                  /\ cmd.ClientContext /= Undefined
                  /\ Base64Decode(cmd.ClientContext) = CustomOpen \o chosen \o CustomClose
            /\ (chosen = Undefined \/ chosen = <<>>) => cmd.ClientContext = Undefined
            /\ cmd.Payload = cfg.payload
            /\ cmd.Qualifier = IF cfg.alias /= Undefined /\ cfg.alias /= <<>> THEN cfg.alias
                               ELSE EnvLookup(env, AliasKey)
            /\ cmd.FunctionName = functions[i].name

\* A command was built from a clientContext that differs from the payload, with
\* no alias of its own: the header encodes the clientContext.
C10_Witness ==
    /\ Len(commands) = 1
    /\ functions[1].config.clientContext = ContextJson
    /\ functions[1].config.payload = DefaultPayload
    /\ functions[1].config.alias = Undefined
    /\ commands[1].ClientContext = Base64(CustomOpen \o ContextJson \o CustomClose)
    /\ commands[1].Qualifier = <<"d", "e", "v">>
    /\ sent[1] = 1

\* ---------------------------------------------------------------------------
\* C6.  createWarmUpFunctionArtifact starts its steps in the order mkdir,
\* writeFile, npm init, npm install, each only after the one before fulfilled;
\* the npm steps are never started with tracing off; a rejecting step rejects the
\* call with nothing started after it, and no step is started twice.
\* ---------------------------------------------------------------------------
StepOrder == <<"mkdir", "writeFile", "npmInit", "npmInstall">>

IsPrefix(s, u) == Len(s) <= Len(u) /\ \A k \in 1..Len(s) : s[k] = u[k]

TracingOn(w) == "tracing" \in DOMAIN warmerConfig[w] /\ warmerConfig[w].tracing = TRUE

C6_StepOrder ==
    artifact.pc /= "idle" =>
        /\ artifact.started /= <<>>
        /\ IsPrefix(artifact.started, StepOrder)
        /\ IsPrefix(artifact.completed, artifact.started)
        /\ Len(artifact.completed) >= Len(artifact.started) - 1
        /\ ~TracingOn(artifact.warmer) => Len(artifact.started) <= 2
        /\ artifact.pc \in ArtifactSteps =>
              /\ artifact.started[Len(artifact.started)] = artifact.pc
              /\ Len(artifact.completed) = Len(artifact.started) - 1
        /\ artifact.pc = "rejected" =>
              /\ artifact.error = artifact.started[Len(artifact.started)]
              /\ Len(artifact.completed) = Len(artifact.started) - 1
        /\ artifact.pc = "resolved" =>
              /\ artifact.completed = artifact.started
              /\ Len(artifact.started) = IF TracingOn(artifact.warmer) THEN 4 ELSE 2
              /\ fs.folders[artifact.warmer].exists
              /\ fs.folders[artifact.warmer].index = <<artifact.text>>

\* With tracing on, npm init rejected: the call rejected with npm install never
\* started, after the directory and the file were written.
C6_Witness ==
    /\ artifact.pc = "rejected"
    /\ artifact.error = "npmInit"
    /\ artifact.started = <<"mkdir", "writeFile", "npmInit">>
    /\ fs.folders[artifact.warmer].index /= <<>>
    /\ ~fs.folders[artifact.warmer].dependency

\* ---------------------------------------------------------------------------
\* C7 (as claimed).  Once addWarmUpFunctionRoleToResources ran for W,
\* warmerConfig.role is 'WarmUpPlugin' + capitalize(W) + 'Role', the IAM role is
\* stored under that key, and the manifest entry addWarmUpFunctionToService wrote
\* for W has that identifier as its role, in whatever order the two ran.
\* ---------------------------------------------------------------------------

\* The expected identifiers, written out.
ExpectedRoleId(w) ==
    CASE w = DefaultWarmer ->
            <<"W", "a", "r", "m", "U", "p", "P", "l", "u", "g", "i", "n",
              "D", "e", "f", "a", "u", "l", "t", "R", "o", "l", "e">>
      [] w = OffPeakWarmer ->
            <<"W", "a", "r", "m", "U", "p", "P", "l", "u", "g", "i", "n",
              "O", "f", "f", "P", "e", "a", "k", "R", "o", "l", "e">>

ExpectedFunctionKey(w) ==
    CASE w = DefaultWarmer ->
            <<"w", "a", "r", "m", "U", "p", "P", "l", "u", "g", "i", "n",
              "D", "e", "f", "a", "u", "l", "t">>
      [] w = OffPeakWarmer ->
            <<"w", "a", "r", "m", "U", "p", "P", "l", "u", "g", "i", "n",
              "O", "f", "f", "P", "e", "a", "k">>

Called(w, call) == \E k \in 1..Len(generated[w]) : generated[w][k] = call

RoleStored(w) ==
    /\ warmerConfig[w].role = ExpectedRoleId(w)
    /\ service.resources.type = "object"
    /\ service.resources.props.Resources.type = "object"
    /\ ExpectedRoleId(w) \in DOMAIN service.resources.props.Resources.props
    /\ service.resources.props.Resources.props[ExpectedRoleId(w)].Type = "AWS::IAM::Role"

EntryHasRole(w) ==
    /\ ExpectedFunctionKey(w) \in DOMAIN service.functions
    /\ "role" \in DOMAIN service.functions[ExpectedFunctionKey(w)]
    /\ service.functions[ExpectedFunctionKey(w)].role = ExpectedRoleId(w)

C7_RoleInEntryAnyOrder ==
    \A w \in Warmers :
        Called(w, "role") =>
            /\ RoleStored(w)
            /\ Called(w, "definition") => EntryHasRole(w)

\* C7 (amended).  Once addWarmUpFunctionRoleToResources ran for W,
\* warmerConfig.role is 'WarmUpPlugin' + capitalize(W) + 'Role' and the IAM role
\* is stored under that key; the manifest entry has that identifier as its role
\* when addWarmUpFunctionToService wrote it after the role was synthesized.
C7_RoleInEntry ==
    \A w \in Warmers :
        Called(w, "role") =>
            /\ RoleStored(w)
            /\ generated[w] = <<"role", "definition">> => EntryHasRole(w)

\* For warmer "offPeak", configured with a role of the user's, the role was
\* synthesized and then the definition, which carries the synthesized identifier.
C7_Witness ==
    /\ generated[OffPeakWarmer] = <<"role", "definition">>
    /\ generated[DefaultWarmer] = <<"role">>
    /\ EntryHasRole(OffPeakWarmer)
    /\ {ExpectedRoleId(OffPeakWarmer), ExpectedRoleId(DefaultWarmer)}
          \subseteq DOMAIN service.resources.props.Resources.props

====
